---- MODULE Spec2Model ----
(***************************************************************************)
(* Job orchestration of the ai-backend server: POST /start creates a job   *)
(* and drives it through Rev-AI transcription (Transcript.generate) and    *)
(* Gemini analysis (getAnalysis / Gemini.getResponse); POST /booksselection*)
(* and GET /status go through authorizeJob; a timer evicts the job.        *)
(*                                                                         *)
(* The model follows one job from its creation to after its eviction.      *)
(* Every handler reads and writes only jobs[jobId] of its own jobId, so a  *)
(* second job shows to this one only as a request that names another      *)
(* identifier or carries another token; both are request inputs here.      *)
(*                                                                         *)
(* One step of the model is one turn of the Node.js event loop: the code   *)
(* that runs between two awaits runs to completion (server.js has no       *)
(* threads).  Awaited provider calls, file operations and timers complete  *)
(* in later turns, in any order, with any outcome they can have.           *)
(***************************************************************************)
EXTENDS Naturals, Integers, Sequences, FiniteSets, TLC

(***************************************************************************)
(* Bound of the model: the longest selectedBooks array a request carries.  *)
(***************************************************************************)
MaxBooks == 2

(***************************************************************************)
(* Program constants.                                                      *)
(***************************************************************************)
POLL_S == 7
TimeoutS == 900
NumKeys == 6
JOB_TTL_MS == 24 * 60 * 60 * 1000

NULL == "null"
UNDEFINED == "undefined"

\* uuidv4(): the identifier of the job.
JobId == "7d1c-job"
\* crypto.randomBytes(32).toString('hex'): the secret of the job.
AccessToken == "a3f9-token"
\* req.file.path: multer's temporary file of the upload.
UploadPath == "uploads/5be1"

\* A name every plain object inherits: jobs['__proto__'] is Object.prototype.
ProtoKey == "__proto__"
\* An identifier that names no job and no inherited property.
UnknownId == "0000-nosuch"
ReqIds == {JobId, ProtoKey, UnknownId}

\* The Authorization header: absent, or a string.  `Bearer ${x}` is modelled
\* by Bearer(x), and a header that carries the bare x by Raw(x).
NoHeader == <<"none", "">>
Bearer(x) == <<"Bearer ", x>>
Raw(x) == <<"", x>>
AuthHeaders ==
    {NoHeader, Bearer(AccessToken), Raw(AccessToken), Bearer("ffff-other"), Bearer(UNDEFINED)}

\* Values of req.body.selectedBooks: missing, an array of book descriptors,
\* or a JSON value that is not an array (a non-empty string).
Book == "book"
Arr(s) == [kind |-> "array", items |-> s]
NotArray == [kind |-> "string", items |-> <<>>]
Missing == [kind |-> UNDEFINED, items |-> <<>>]
BodyBooks == {Arr([i \in 1 .. k |-> Book]) : k \in 0 .. MaxBooks} \cup {NotArray, Missing}

\* Texts the transcription provider can return (an empty transcript included).
TranscriptTexts == {"", "bonjour"}
\* Statuses of a Rev-AI job as getJobDetails reports them.
RevStatuses == {"in_progress", "transcribed", "failed", "revoked", "error"}
\* error.message of a failed generateContent call.
ProviderErrors == {"quota", "auth"}

MsgTranscription == "Transcription failed."
MsgAnalysis == "An error occurred during AI analysis."

\* job.analysis: null, or the object Gemini.getResponse returned.
NoAnalysis == [tag |-> NULL, response |-> NULL, error |-> <<>>]
Report(text) == [tag |-> "object", response |-> text, error |-> <<>>]
GeminiError(msg) == [tag |-> "object", response |-> NULL, error |-> <<"Gemini API error: ", msg>>]

VARIABLES
    jobs,        \* own keys of the `jobs` object: the identifiers in the store
    job,         \* the job's record (it outlives its eviction while a closure holds it)
    protoBooks,  \* Object.prototype.selectedBooks
    fileOnDisk,  \* whether the uploaded file exists
    startPc,     \* where the async part of POST /start stands
    elapsed,     \* Transcript.generate's `elapsed`, while its loop runs
    anPc,        \* where getAnalysis stands
    anKey,       \* Gemini.getResponse's `i` (1-based), while its loop runs
    usedBooks,   \* the books getAnalysis mapped over
    timer,       \* the eviction timer
    evictUnlink, \* the unlink issued by the eviction timer
    calls,       \* history: invocations of the adapters
    hist,        \* history: the values assigned to job.status, in order
    trResult,    \* history: how Transcript.generate ended
    anResult,    \* history: how the analysis ended
    unhandled,   \* history: the sites of promise rejections nobody handles
    refusals,    \* history: the POST /booksselection the gate refused, counted modulo 2
    lastFailure  \* history: the message of getResponse's latest failed attempt

vars == <<jobs, job, protoBooks, fileOnDisk, startPc, elapsed, anPc, anKey,
          usedBooks, timer, evictUnlink, calls, hist, trResult, anResult, unhandled,
          refusals, lastFailure>>

\* The record POST /start stores.
NewJob ==
    [id |-> JobId, status |-> "transcribing", transcript |-> NULL,
     analysis |-> NoAnalysis, selectedBooks |-> Arr(<<>>),
     filePath |-> UploadPath, error |-> NULL, accessToken |-> AccessToken]

\* Before POST /start there is no record; the model keeps a placeholder.
NoJob ==
    [id |-> NULL, status |-> NULL, transcript |-> NULL, analysis |-> NoAnalysis,
     selectedBooks |-> Arr(<<>>), filePath |-> NULL, error |-> NULL, accessToken |-> NULL]

NoCalls == [generate |-> 0, getAnalysis |-> 0, getResponse |-> 0]

Init ==
    /\ jobs = {}
    /\ job = NoJob
    /\ protoBooks = Missing
    /\ fileOnDisk = FALSE
    /\ startPc = "idle"
    /\ elapsed = 0
    /\ anPc = "none"
    /\ anKey = 0
    /\ usedBooks = <<>>
    /\ timer = [state |-> "unset", delayMs |-> 0]
    /\ evictUnlink = "none"
    /\ calls = NoCalls
    /\ hist = <<>>
    /\ trResult = "none"
    /\ anResult = "none"
    /\ unhandled = {}
    /\ refusals = 0
    /\ lastFailure = NULL

(***************************************************************************)
(* authorizeJob                                                            *)
(***************************************************************************)
\* jobs[jobId]: an own key gives the job's record; a name inherited from
\* Object.prototype gives an object that is no job; anything else undefined.
Lookup(id) ==
    IF id \in jobs THEN "job"
    ELSE IF id = ProtoKey THEN "prototype"
    ELSE UNDEFINED

\* `Bearer ${job.accessToken}` for the object jobs[jobId].
ExpectedHeader(id) ==
    IF Lookup(id) = "job" THEN Bearer(job.accessToken) ELSE Bearer(UNDEFINED)

\* The gate's outcome: 404, 403, or 0 when it calls next().
authorizeJob(id, auth) ==
    IF Lookup(id) = UNDEFINED THEN 404
    ELSE IF auth = NoHeader \/ auth # ExpectedHeader(id) THEN 403
    ELSE 0

(***************************************************************************)
(* tryStartAnalysis / getAnalysis                                          *)
(***************************************************************************)
\* status.startsWith('analysis')
StartsWithAnalysis(s) == s \in {"analysis_started"}

StatusAllowsStart_NoAnalysisCheck(r) ==
    ~(r.status = "finished" \/ r.status = "error")

StatusAllowsStart_NoErrorCheck(r) ==
    ~(StartsWithAnalysis(r.status) \/ r.status = "finished")

\* The early return of tryStartAnalysis on the job's status.
StatusAllowsStart(r) ==
    ~(StartsWithAnalysis(r.status) \/ r.status = "finished" \/ r.status = "error")

Ready_NoTranscript(r) ==
    /\ r.selectedBooks.kind = "array"
    /\ Len(r.selectedBooks.items) > 0

\* job.transcript && Array.isArray(job.selectedBooks) && job.selectedBooks.length > 0
Ready(r) ==
    /\ r.transcript # NULL
    /\ r.transcript # ""
    /\ r.selectedBooks.kind = "array"
    /\ Len(r.selectedBooks.items) > 0

StartsAnalysis(r) == StatusAllowsStart(r) /\ Ready(r)

tryStartAnalysis_NoStatusCheck(r) ==
    IF Ready(r) THEN [r EXCEPT !.status = "analysis_started"] ELSE r

\* The record after tryStartAnalysis's synchronous part.
tryStartAnalysis(r) ==
    IF StartsAnalysis(r) THEN [r EXCEPT !.status = "analysis_started"] ELSE r

AnalysisReturned_NoReport(r, result) ==
    [r EXCEPT !.status = "finished", !.transcript = NULL]

AnalysisReturned_KeepsTranscript(r, result) ==
    [r EXCEPT !.status = "finished", !.analysis = result]

\* getAnalysis after geminiClient.getResponse() returned `result`.
AnalysisReturned(r, result) ==
    [r EXCEPT !.status = "finished", !.analysis = result, !.transcript = NULL]

AnalysisThrew_TranscriptionMessage(r) ==
    [r EXCEPT !.status = "error", !.error = MsgTranscription]

\* getAnalysis's catch.
AnalysisThrew(r) ==
    [r EXCEPT !.status = "error", !.error = MsgAnalysis]

TranscriptionThrew_NoStatus(r) ==
    [r EXCEPT !.error = MsgTranscription]

\* The catch of POST /start, for a job still in the store.
TranscriptionThrew(r) ==
    [r EXCEPT !.status = "error", !.error = MsgTranscription]

FinallyPc_NoStoreCheck(inStore, r) ==
    IF r.filePath # NULL THEN "unlink" ELSE "done"

\* The finally of POST /start up to its await: unlink is called for a job
\* that is in the store and holds a file.
FinallyPc(inStore, r) ==
    IF inStore /\ r.filePath # NULL THEN "unlink" ELSE "done"

\* The history of job.status after an assignment that made r0 into r1.
Push(h, r0, r1) == IF r1.status # r0.status THEN Append(h, r1.status) ELSE h

(***************************************************************************)
(* POST /start and Transcript.generate                                     *)
(***************************************************************************)
\* A valid upload: the record is stored, the eviction timer is armed, 202 is
\* sent, and generate is called (it runs up to its first await).
PostStart ==
    /\ startPc = "idle"
    /\ jobs' = jobs \cup {JobId}
    /\ job' = NewJob
    /\ fileOnDisk' = TRUE
    /\ timer' = [state |-> "armed", delayMs |-> JOB_TTL_MS]
    /\ startPc' = "submit"
    /\ calls' = [calls EXCEPT !.generate = @ + 1]
    /\ hist' = <<"transcribing">>
    /\ UNCHANGED <<protoBooks, refusals, lastFailure, elapsed, anPc, anKey, usedBooks, evictUnlink,
                   trResult, anResult, unhandled>>

\* Transcript.generate threw (`why` says what): the catch, then the finally,
\* of POST /start.
GenerateThrew(why) ==
    LET r1 == IF JobId \in jobs THEN TranscriptionThrew(job) ELSE job IN
    /\ job' = r1
    /\ hist' = Push(hist, job, r1)
    /\ trResult' = why
    /\ startPc' = FinallyPc(JobId \in jobs, r1)
    /\ elapsed' = 0
    /\ UNCHANGED <<jobs, protoBooks, refusals, lastFailure, fileOnDisk, anPc, anKey, usedBooks,
                   timer, evictUnlink, calls, anResult, unhandled>>

\* client.submitJobLocalFile returns or throws.
Submit ==
    /\ startPc = "submit"
    /\ \E ok \in BOOLEAN :
        IF ok
        THEN /\ startPc' = "poll"
             /\ UNCHANGED <<jobs, job, protoBooks, refusals, lastFailure, fileOnDisk, elapsed, anPc, anKey,
                            usedBooks, timer, evictUnlink, calls, hist, trResult,
                            anResult, unhandled>>
        ELSE GenerateThrew("exception")

PollVerdict_NoTimeout(revStatus, e) ==
    IF revStatus = "transcribed" THEN "break"
    ELSE IF revStatus \in {"failed", "revoked", "error"} THEN "provider_failed"
    ELSE "continue"

\* How one turn of generate's loop ends, given the status getJobDetails
\* reported and the value of `elapsed` after the turn's increment.
PollVerdict(revStatus, e) ==
    IF revStatus = "transcribed" THEN "break"
    ELSE IF revStatus \in {"failed", "revoked", "error"} THEN "provider_failed"
    ELSE IF e > TimeoutS THEN "timeout"
    ELSE "continue"

\* One turn of the polling loop: the 7 s sleep, elapsed += 7, then
\* getJobDetails, which returns a status or throws.
Poll ==
    /\ startPc = "poll"
    /\ \E out \in RevStatuses \cup {"throw"} :
        LET e == elapsed + POLL_S
            v == IF out = "throw" THEN "exception" ELSE PollVerdict(out, e)
        IN IF v \in {"break", "continue"}
           THEN /\ startPc' = IF v = "break" THEN "fetch" ELSE "poll"
                /\ elapsed' = IF v = "break" THEN 0 ELSE e
                /\ UNCHANGED <<jobs, job, protoBooks, refusals, lastFailure, fileOnDisk, anPc, anKey,
                               usedBooks, timer, evictUnlink, calls, hist, trResult,
                               anResult, unhandled>>
           ELSE GenerateThrew(v)

\* getAnalysis up to its first await: the books are taken from the record now.
BeginAnalysis(r) ==
    /\ anPc' = "reading"
    /\ usedBooks' = r.selectedBooks.items
    /\ calls' = [calls EXCEPT !.getAnalysis = @ + 1]

\* client.getTranscriptText returns the text or throws.  With the text, the
\* handler stores it, sets 'transcribed' and calls tryStartAnalysis; when no
\* analysis starts, the finally runs in the same turn.
FetchTranscript ==
    /\ startPc = "fetch"
    /\ \E out \in TranscriptTexts \cup {"throw"} :
        IF out = "throw"
        THEN GenerateThrew("exception")
        ELSE IF JobId \notin jobs
        THEN \* jobs[jobId] is undefined: the assignment throws into the catch,
             \* which finds no job, and the finally finds none either
             /\ trResult' = "ok"
             /\ startPc' = "done"
             /\ UNCHANGED <<jobs, job, protoBooks, refusals, lastFailure, fileOnDisk, elapsed, anPc,
                            anKey, usedBooks, timer, evictUnlink, calls, hist,
                            anResult, unhandled>>
        ELSE LET r1 == [job EXCEPT !.transcript = out, !.status = "transcribed"]
                 r2 == tryStartAnalysis(r1)
             IN /\ job' = r2
                /\ hist' = Push(Push(hist, job, r1), r1, r2)
                /\ trResult' = "ok"
                /\ IF StartsAnalysis(r1)
                   THEN /\ BeginAnalysis(r2)
                        /\ startPc' = "analysis"
                   ELSE /\ startPc' = FinallyPc(TRUE, r2)
                        /\ UNCHANGED <<anPc, usedBooks, calls>>
                /\ UNCHANGED <<jobs, protoBooks, refusals, lastFailure, fileOnDisk, elapsed, anKey,
                               timer, evictUnlink, anResult, unhandled>>

(***************************************************************************)
(* getAnalysis and Gemini.getResponse                                      *)
(***************************************************************************)
\* getAnalysis ended, with the record now r1: when POST /start awaits it
\* (through tryStartAnalysis), the finally of POST /start runs next.
AnalysisEnded(r1, how) ==
    /\ job' = r1
    /\ hist' = Push(hist, job, r1)
    /\ anPc' = "done"
    /\ anKey' = 0
    /\ anResult' = how
    /\ startPc' = IF startPc = "analysis" THEN FinallyPc(JobId \in jobs, r1) ELSE startPc

\* Promise.all over fs.readFile of every book: all read, or one rejects.
\* Read, getAnalysis constructs the client and calls getResponse.
ReadBooks ==
    /\ anPc = "reading"
    /\ \E ok \in BOOLEAN :
        IF ok
        THEN /\ anPc' = "gemini"
             /\ anKey' = 1
             /\ calls' = [calls EXCEPT !.getResponse = @ + 1]
             /\ lastFailure' = NULL
             /\ UNCHANGED <<job, hist, anResult, startPc>>
        ELSE /\ AnalysisEnded(AnalysisThrew(job), "read_failed")
             /\ UNCHANGED <<calls, lastFailure>>
    /\ UNCHANGED <<jobs, protoBooks, refusals, fileOnDisk, elapsed, usedBooks, timer,
                   evictUnlink, trResult, unhandled>>

AfterFailedAttempt_GivesUpEarly(i, msg) ==
    IF i >= NumKeys - 1 THEN GeminiError(msg) ELSE NoAnalysis

\* What getResponse does when the attempt with key i failed with `msg`:
\* the last key returns the error object, any other key goes on
\* (NoAnalysis stands for "no return").
AfterFailedAttempt(i, msg) ==
    IF i = NumKeys THEN GeminiError(msg) ELSE NoAnalysis

\* One attempt of getResponse's loop: generateContent with key i returns a
\* text or throws.  getResponse returns an object in both cases, and
\* getAnalysis stores what it returns.
GenerateContent ==
    /\ anPc = "gemini"
    /\ \E out \in {"report"} \cup ProviderErrors :
        IF out = "report"
        THEN /\ AnalysisEnded(AnalysisReturned(job, Report(out)), "returned")
             /\ UNCHANGED lastFailure
        ELSE LET ret == AfterFailedAttempt(anKey, out) IN
             /\ lastFailure' = out
             /\ IF ret = NoAnalysis
                THEN /\ anKey' = anKey + 1
                     /\ UNCHANGED <<job, hist, anPc, anResult, startPc>>
                ELSE AnalysisEnded(AnalysisReturned(job, ret), "exhausted")
    /\ UNCHANGED <<jobs, protoBooks, refusals, fileOnDisk, elapsed, usedBooks, timer,
                   evictUnlink, calls, trResult, unhandled>>

(***************************************************************************)
(* The finally of POST /start, after its await                             *)
(***************************************************************************)
\* fs.unlink(path): resolves and removes the file when it exists, rejects
\* (ENOENT) when the file is already gone.
UnlinkResolves == fileOnDisk

\* The finally's `await fs.unlink(...)` settles.  Resolved, the handler
\* clears jobs[jobId].filePath, which throws if the job was evicted during
\* the await; rejected, the rejection leaves the handler.
UnlinkDone ==
    /\ startPc = "unlink"
    /\ startPc' = "done"
    /\ IF UnlinkResolves
       THEN /\ fileOnDisk' = FALSE
            /\ IF JobId \in jobs
               THEN /\ job' = [job EXCEPT !.filePath = NULL]
                    /\ UNCHANGED unhandled
               ELSE /\ unhandled' = unhandled \cup {"finally_clear"}
                    /\ UNCHANGED job
       ELSE /\ unhandled' = unhandled \cup {"finally_unlink"}
            /\ UNCHANGED <<job, fileOnDisk>>
    /\ UNCHANGED <<jobs, protoBooks, refusals, lastFailure, elapsed, anPc, anKey, usedBooks, timer,
                   evictUnlink, calls, hist, trResult, anResult>>

(***************************************************************************)
(* The eviction timer                                                      *)
(***************************************************************************)
\* if (jobs[jobId].filePath) in the timer's callback.
EvictionUnlinks_Never(r) == FALSE

EvictionUnlinks(r) == r.filePath # NULL

\* The setTimeout callback of POST /start, JOB_TTL_MS after the creation:
\* unlink is issued for a file still held, and the record is deleted.
EvictTimer ==
    /\ timer.state = "armed"
    /\ timer' = [timer EXCEPT !.state = "fired"]
    /\ IF JobId \in jobs
       THEN /\ evictUnlink' = IF EvictionUnlinks(job) THEN "pending" ELSE evictUnlink
            /\ jobs' = jobs \ {JobId}
       ELSE UNCHANGED <<evictUnlink, jobs>>
    /\ UNCHANGED <<job, protoBooks, refusals, lastFailure, fileOnDisk, startPc, elapsed, anPc, anKey,
                   usedBooks, calls, hist, trResult, anResult, unhandled>>

\* The timer's fs.unlink settles.  Rejected, its .catch callback reads
\* jobs[jobId].filePath after the record was deleted, and throws.
EvictUnlinkDone ==
    /\ evictUnlink = "pending"
    /\ evictUnlink' = "done"
    /\ IF UnlinkResolves
       THEN /\ fileOnDisk' = FALSE
            /\ UNCHANGED unhandled
       ELSE /\ unhandled' = IF JobId \in jobs THEN unhandled
                            ELSE unhandled \cup {"evict_catch"}
            /\ UNCHANGED fileOnDisk
    /\ UNCHANGED <<jobs, job, protoBooks, refusals, lastFailure, startPc, elapsed, anPc, anKey,
                   usedBooks, timer, calls, hist, trResult, anResult>>

\* The uploaded file disappears without the server deleting it.
FileRemovedExternally ==
    /\ fileOnDisk
    /\ fileOnDisk' = FALSE
    /\ UNCHANGED <<jobs, job, protoBooks, refusals, lastFailure, startPc, elapsed, anPc, anKey,
                   usedBooks, timer, evictUnlink, calls, hist, trResult, anResult,
                   unhandled>>

(***************************************************************************)
(* POST /booksselection/:jobId and GET /status/:jobId                      *)
(***************************************************************************)
\* req.body.selectedBooks || []: a body without the key inherits
\* Object.prototype.selectedBooks; undefined gives the empty array.
BodyValue(body) ==
    LET v == IF body = Missing THEN protoBooks ELSE body IN
    IF v = Missing THEN Arr(<<>>) ELSE v

GateCallsNext_After403(code) == code \in {0, 403}

\* Whether authorizeJob, having found `code`, hands the request to the
\* route's handler: it returns after sending a 404 or a 403, and calls
\* next() otherwise.
GateCallsNext(code) == code = 0

\* The handler behind the gate: the books are stored, 200 is sent, and
\* tryStartAnalysis runs up to getAnalysis's first await.
BooksSelection(id, auth, body) ==
    /\ refusals' = IF authorizeJob(id, auth) # 0 THEN (refusals + 1) % 2 ELSE refusals
    /\ IF ~GateCallsNext(authorizeJob(id, auth))
       THEN UNCHANGED <<jobs, job, protoBooks, fileOnDisk, startPc, elapsed, anPc,
                        anKey, usedBooks, timer, evictUnlink, calls, hist, trResult,
                        anResult, unhandled, lastFailure>>
       ELSE IF Lookup(id) = "job"
       THEN LET r1 == [job EXCEPT !.selectedBooks = BodyValue(body)]
                r2 == tryStartAnalysis(r1)
            IN /\ job' = r2
               /\ hist' = Push(hist, r1, r2)
               /\ IF StartsAnalysis(r1)
                  THEN BeginAnalysis(r2)
                  ELSE UNCHANGED <<anPc, usedBooks, calls>>
               /\ UNCHANGED <<jobs, protoBooks, lastFailure, fileOnDisk, startPc,
                              elapsed, anKey, timer, evictUnlink, trResult,
                              anResult, unhandled>>
       ELSE \* req.job is Object.prototype: the write lands on it, and
            \* tryStartAnalysis throws on job.status.startsWith
            /\ protoBooks' = BodyValue(body)
            /\ unhandled' = unhandled \cup {"books_prototype"}
            /\ UNCHANGED <<jobs, job, fileOnDisk, startPc, elapsed, anPc, anKey,
                           usedBooks, timer, evictUnlink, calls, hist, trResult,
                           anResult, lastFailure>>

\* The response of GET /status/:jobId: the gate's code, or 200 with the body.
StatusResponse(id, auth) ==
    IF authorizeJob(id, auth) # 0
    THEN [code |-> authorizeJob(id, auth), status |-> UNDEFINED,
          analysis |-> NoAnalysis, error |-> UNDEFINED]
    ELSE IF Lookup(id) = "job"
    THEN [code |-> 200, status |-> job.status, analysis |-> job.analysis,
          error |-> job.error]
    ELSE [code |-> 200, status |-> UNDEFINED, analysis |-> NoAnalysis, error |-> UNDEFINED]

\* The status code of POST /booksselection/:jobId: the gate's code, or the
\* handler's sendStatus(200); the response has no body of the job's.
BooksResponse(id, auth) ==
    IF authorizeJob(id, auth) # 0 THEN authorizeJob(id, auth) ELSE 200

\* GET /status reads the record and changes nothing.
GetStatus(id, auth) ==
    /\ StatusResponse(id, auth).code \in {200, 403, 404}
    /\ UNCHANGED vars

Next ==
    \/ PostStart
    \/ Submit
    \/ Poll
    \/ FetchTranscript
    \/ ReadBooks
    \/ GenerateContent
    \/ UnlinkDone
    \/ EvictTimer
    \/ EvictUnlinkDone
    \/ FileRemovedExternally
    \/ \E id \in ReqIds, auth \in AuthHeaders, body \in BodyBooks : BooksSelection(id, auth, body)
    \/ \E id \in ReqIds, auth \in AuthHeaders : GetStatus(id, auth)

Spec == Init /\ [][Next]_vars

\* POST /start alone, up to the end of its handler, with the eviction timer
\* it arms: the steps of Transcript.generate and the finally's unlink.
GenerateNext ==
    \/ PostStart
    \/ Submit
    \/ Poll
    \/ FetchTranscript
    \/ UnlinkDone
    \/ EvictTimer
    \/ EvictUnlinkDone

\* Every call generate makes to the provider returns or throws: the awaits
\* of submitJobLocalFile, of sleep and getJobDetails, and of
\* getTranscriptText each settle.
GenerateSpec ==
    Init /\ [][GenerateNext]_vars
         /\ WF_vars(Submit) /\ WF_vars(Poll) /\ WF_vars(FetchTranscript)

(***************************************************************************)
(* Properties                                                              *)
(***************************************************************************)
Created == startPc # "idle"
InStore == JobId \in jobs
Evicted == timer.state = "fired"
HasBooks(r) == r.selectedBooks.kind = "array" /\ Len(r.selectedBooks.items) > 0
TranscriptionFailed == trResult \in {"provider_failed", "timeout", "exception"}

\* C1: over the job's whole life getAnalysis is invoked at most once, and so
\* is Gemini.getResponse, whatever the order of transcription completion and
\* book submissions.
C1_AnalysisAtMostOnce ==
    /\ calls.getAnalysis <= 1
    /\ calls.getResponse <= 1

\* The analysis ran once and books were submitted again after it was triggered.
C1_Witness ==
    /\ calls.getResponse = 1
    /\ job.selectedBooks.items # usedBooks
    /\ HasBooks(job)

\* C2 (as claimed): when every credential of the pool failed, the job's
\* status is 'error' with the analysis message, and 'finished' was never set.
C2_ExhaustedPoolIsError ==
    anResult = "exhausted" =>
        /\ job.status = "error"
        /\ job.error = MsgAnalysis
        /\ \A i \in 1 .. Len(hist) : hist[i] # "finished"

\* C3: the values assigned to job.status follow, one after the other, the
\* steps transcribing->transcribed, transcribed->analysis_started,
\* analysis_started->finished, or a step from one of these three
\* non-terminal states to error; no value comes twice, and the record's
\* status is the last value assigned.
AllowedSteps ==
    {<<"transcribing", "transcribed">>, <<"transcribed", "analysis_started">>,
     <<"analysis_started", "finished">>}
        \cup {<<s, "error">> : s \in {"transcribing", "transcribed", "analysis_started"}}

C4_ErrorIsFinal ==
    [][job.status = "error" =>
          /\ job'.status = "error"
          /\ calls' = calls
          /\ startPc \notin {"submit", "poll", "fetch", "analysis"}
          /\ anPc \notin {"reading", "gemini"}
          /\ anPc' = anPc /\ anKey' = anKey /\ elapsed' = elapsed]_vars

\* An analysis failed, leaving the transcript in place, and books were
\* submitted again afterwards.
C4_Witness ==
    /\ job.status = "error"
    /\ job.error = MsgAnalysis
    /\ HasBooks(job)
    /\ job.selectedBooks.items # usedBooks

\* C5: job.analysis is non-null if and only if the status is 'finished'.
C5_ReportIffFinished ==
    (job.analysis # NoAnalysis) <=> (job.status = "finished")

\* The job finished with the provider's text as its report.
C5_Witness ==
    /\ job.status = "finished"
    /\ job.analysis.response = "report"

\* C6 (as claimed): a job whose transcript is present and whose books are a
\* non-empty list has had its analysis started, whichever came first, so it
\* is never in 'transcribing' or 'transcribed'; and an analysis starts only
\* with a transcript and a non-empty list of books.
C6_AnalysisStartsIffBoth ==
    /\ (job.transcript # NULL /\ HasBooks(job)) =>
            /\ calls.getAnalysis >= 1
            /\ job.status \notin {"transcribing", "transcribed"}
    /\ calls.getAnalysis >= 1 => (trResult = "ok" /\ Len(usedBooks) > 0)

\* C7 (as claimed): for a job in the store, a missing or different
\* Authorization header gives 403; for an identifier that is not in the
\* store, every header gives 404.
C7_ForbiddenOrNotFound ==
    \A id \in ReqIds, auth \in AuthHeaders :
        /\ (id \in jobs /\ auth # Bearer(job.accessToken)) => authorizeJob(id, auth) = 403
        /\ id \notin jobs => authorizeJob(id, auth) = 404

\* C8: after Transcript.generate failed (provider status failed, revoked or
\* error, deadline exceeded, or an exception of a provider call) the
\* transcript is absent and neither getAnalysis nor getResponse has been
\* invoked; while the job is in the store its status is 'error' and its
\* error is 'Transcription failed.'.
C8_TranscriptionFailure ==
    TranscriptionFailed =>
        /\ job.transcript = NULL
        /\ calls.getAnalysis = 0
        /\ calls.getResponse = 0
        /\ anPc = "none"
        /\ InStore => (job.status = "error" /\ job.error = MsgTranscription)

\* The deadline was exceeded and books were submitted (before or after).
C8_Witness ==
    /\ trResult = "timeout"
    /\ InStore
    /\ HasBooks(job)

\* C9 (as claimed): once the handler of POST /start has run to its end, a
\* job still in the store holds no file path and its file is gone.
C9_FileReleasedAfterTranscription ==
    (startPc = "done" /\ InStore) => (job.filePath = NULL /\ ~fileOnDisk)

\* C10: the record is in the store exactly as long as the timer armed at
\* creation with delay JOB_TTL_MS has not fired; once it fired, every request
\* for the job's identifier gets 404, and when the timer's unlink has
\* settled the uploaded file is gone.
C10_Eviction ==
    /\ InStore <=> timer.state = "armed"
    /\ Created => timer.delayMs = JOB_TTL_MS
    /\ Evicted =>
        /\ \A auth \in AuthHeaders :
              /\ authorizeJob(JobId, auth) = 404
              /\ StatusResponse(JobId, auth).code = 404
        /\ evictUnlink # "pending" => ~fileOnDisk

\* The job was evicted while its analysis was in flight and it still held
\* its file; the timer's unlink has removed it.
C10_Witness ==
    /\ Evicted
    /\ job.status = "analysis_started"
    /\ job.filePath # NULL
    /\ evictUnlink = "done"
    /\ ~fileOnDisk

\* C11 (as claimed): whatever the request, the response of GET /status holds
\* a lifecycle status, the report and one of the two generic error strings;
\* it never holds the access token, and no text of a failed provider call
\* is in any of its fields; POST /booksselection answers with a bare code.
ProviderTextIn(a) ==
    \/ a.response \in ProviderErrors
    \/ \E i \in 1 .. Len(a.error) : a.error[i] \in ProviderErrors

C11_NoProviderDetailInResponses ==
    \A id \in ReqIds, auth \in AuthHeaders :
        LET resp == StatusResponse(id, auth) IN
        /\ BooksResponse(id, auth) \in {200, 403, 404}
        /\ resp.status # AccessToken
        /\ resp.error \in {NULL, UNDEFINED, MsgTranscription, MsgAnalysis}
        /\ ~ProviderTextIn(resp.analysis)
        /\ resp.analysis.error = <<>>

\* C13 (as claimed): a job whose status is 'analysis_started' or 'finished',
\* or 'error' by a failed analysis, holds no file path.
C13_FileReleasedBeforeAnalysis ==
    (\/ job.status \in {"analysis_started", "finished"}
     \/ (job.status = "error" /\ job.error = MsgAnalysis))
        => job.filePath = NULL

\* C14 (as claimed): a failed unlink, in the finally of POST /start or in the
\* eviction timer, never leaves its handler as an unhandled rejection.
C14_CleanupFailureAbsorbed ==
    /\ "finally_unlink" \notin unhandled
    /\ "evict_catch" \notin unhandled

\* C17: the transcript is null while the status is 'transcribing', non-null
\* while it is 'transcribed' or 'analysis_started', and null when it is
\* 'finished'.
C17_TranscriptLifecycle ==
    /\ job.status = "transcribing" => job.transcript = NULL
    /\ job.status \in {"transcribed", "analysis_started"} => job.transcript # NULL
    /\ job.status = "finished" => job.transcript = NULL

\* The job finished after holding a transcript, and the transcript is cleared.
C17_Witness ==
    /\ job.status = "finished"
    /\ anResult = "returned"
    /\ job.transcript = NULL
    /\ "transcribed" \in {hist[i] : i \in 1 .. Len(hist)}

\* C20: job.error is non-null if and only if the status is 'error'; it is
\* 'Transcription failed.' when the error came before 'transcribed' was set,
\* and 'An error occurred during AI analysis.' when it came after
\* 'analysis_started' was set; no error comes in between.
C20_ErrorFieldMatchesStatus ==
    LET seen == {hist[i] : i \in 1 .. Len(hist)} IN
    /\ (job.error # NULL) <=> (job.status = "error")
    /\ job.status = "error" =>
          IF "analysis_started" \in seen
          THEN job.error = MsgAnalysis
          ELSE "transcribed" \notin seen /\ job.error = MsgTranscription

\* A book could not be read: the analysis failed after 'analysis_started'.
C20_Witness ==
    /\ job.status = "error"
    /\ anResult = "read_failed"
    /\ job.error = MsgAnalysis

\* C15: Transcript.generate terminates when each provider call returns.  It
\* polls at most floor(TimeoutS / 7) + 1 times: a further poll is made only
\* while the polls made are at most floor(TimeoutS / 7), and it times out
\* at the poll that takes the elapsed time over TimeoutS.  A terminal
\* status of the provider is acted on whatever the elapsed time.
InGenerate == startPc \in {"submit", "poll", "fetch"}

PollsMade == elapsed \div POLL_S

C15_GenerateTerminates ==
    /\ [](startPc = "poll" =>
            /\ elapsed = PollsMade * POLL_S
            /\ PollsMade <= TimeoutS \div POLL_S)
    /\ [](\A e \in 0 .. TimeoutS + POLL_S :
            /\ PollVerdict("transcribed", e) = "break"
            /\ \A st \in {"failed", "revoked", "error"} :
                   PollVerdict(st, e) = "provider_failed")
    /\ [][startPc = "poll" /\ trResult' = "timeout" =>
            /\ elapsed <= TimeoutS
            /\ elapsed + POLL_S > TimeoutS
            /\ PollsMade + 1 = TimeoutS \div POLL_S + 1]_vars
    /\ (InGenerate ~> ~InGenerate)

\* generate timed out, and the job records the failed transcription.
C15_Witness ==
    /\ trResult = "timeout"
    /\ startPc = "done"
    /\ calls.generate = 1
    /\ job.error = MsgTranscription

\* C18: once a job was evicted with its transcription or its analysis still
\* in flight, no step puts it back in the store, GET /status answers 404 and
\* no analysis is started; the adapter's call returning or throwing adds no
\* unhandled rejection, and the handler it resumes does not go on to the
\* cleanup of the evicted job's file.
AdapterInFlight == InGenerate \/ anPc \in {"reading", "gemini"}

AdapterStep == Submit \/ Poll \/ FetchTranscript \/ ReadBooks \/ GenerateContent

C18_EvictedJobStaysGone ==
    [][(Evicted /\ AdapterInFlight) =>
          /\ jobs' = {}
          /\ \A auth \in AuthHeaders : StatusResponse(JobId, auth)'.code = 404
          /\ calls'.getAnalysis = calls.getAnalysis
          /\ startPc # "unlink" => startPc' # "unlink"
          /\ unhandled' # unhandled => ~AdapterStep]_vars

\* The job was evicted during its transcription, which then succeeded: the
\* dead record is as it was and the handler is over.
C18_Witness ==
    /\ Evicted
    /\ trResult = "ok"
    /\ startPc = "done"
    /\ job.status = "transcribing"
    /\ job.transcript = NULL
    /\ calls.getAnalysis = 0

\* C19: an authorized POST /booksselection for a job whose status is
\* 'analysis_started', 'finished' or 'error' changes selectedBooks, to the
\* body's list, and nothing else of the record; it starts no analysis and
\* leaves the books of a running analysis as they were taken.
C19_LateBooksOnlyReplace ==
    [][\A body \in BodyBooks :
          (/\ InStore
           /\ job.status \in {"analysis_started", "finished", "error"}
           /\ BooksSelection(JobId, Bearer(AccessToken), body)) =>
              /\ job' = [job EXCEPT !.selectedBooks = job'.selectedBooks]
              /\ body # Missing => job'.selectedBooks = body
              /\ calls' = calls
              /\ anPc' = anPc
              /\ anKey' = anKey
              /\ usedBooks' = usedBooks]_vars

\* An analysis is running with the books it took, and the record now holds
\* another list.
C19_Witness ==
    /\ InStore
    /\ job.status = "analysis_started"
    /\ anPc \in {"reading", "gemini"}
    /\ job.selectedBooks # Arr(usedBooks)
    /\ calls.getAnalysis = 1

\* C12: a POST /booksselection the gate answers with 403 or 404 changes
\* nothing of the store, of any record, of Object.prototype, of the file or
\* of any running transcription, analysis or timer, and starts no analysis.
\* (Every refusal, and nothing else, changes `refusals`.)
RestOfState ==
    <<jobs, job, protoBooks, fileOnDisk, startPc, elapsed, anPc, anKey, usedBooks,
      timer, evictUnlink, calls, hist, trResult, anResult, unhandled, lastFailure>>

C12_RefusedBooksChangeNothing ==
    [][refusals' # refusals => RestOfState' = RestOfState]_vars

\* A request was refused, and the job waits for its books with a transcript
\* that would start the analysis.
C12_Witness ==
    /\ refusals = 1
    /\ InStore
    /\ job.status = "transcribed"
    /\ job.transcript = "bonjour"
    /\ job.selectedBooks = Arr(<<>>)
    /\ calls.getAnalysis = 0

\* C16: getResponse tries the keys in their order, one after the other: a
\* key is tried only after the one before it failed; the first success ends
\* the call; at most NumKeys keys are tried; the error object is returned
\* only when the last key failed, and it carries that failure's message.
C16_KeysTriedInOrder ==
    /\ [](anPc = "gemini" =>
            /\ anKey \in 1 .. NumKeys
            /\ (anKey = 1) <=> (lastFailure = NULL))
    /\ [][anPc = "gemini" /\ anKey' # anKey /\ anPc' = "gemini" =>
            /\ anKey' = anKey + 1
            /\ lastFailure' \in ProviderErrors]_vars
    /\ [][anPc = "gemini" /\ anPc' = "done" =>
            /\ anResult' \in {"returned", "exhausted"}
            /\ anResult' = "returned" =>
                  /\ lastFailure' = lastFailure
                  /\ job'.analysis = Report("report")
            /\ anResult' = "exhausted" =>
                  /\ anKey = NumKeys
                  /\ lastFailure' \in ProviderErrors
                  /\ job'.analysis = GeminiError(lastFailure')]_vars

\* The report came from a later key, after the keys before it had failed.
C16_Witness ==
    /\ anResult = "returned"
    /\ lastFailure \in ProviderErrors
    /\ job.analysis = Report("report")
====
